---- MODULE Spec2Model ----
(***************************************************************************)
(* Model of AddepalClientRetriever (src/addepar_client_list_only.py):      *)
(* the process-wide single-slot cache, the class-level lock, and the       *)
(* submit / poll / download sequence of get_client_list with the retry     *)
(* loops of _post_job and _check_status, run by several threads against a  *)
(* remote whose responses are chosen nondeterministically.                 *)
(*                                                                         *)
(* Time is counted in hours, sleeps in milliseconds, progress in percent.  *)
(* A DataFrame is identified by the id of the job whose download produced  *)
(* it; two different jobs never yield the same table.                      *)
(***************************************************************************)
EXTENDS Integers, Sequences, FiniteSets, TLC

\* ---------------------------------------------------------------- bounds
NThreads == 2          \* threads of the process calling get_client_list
MaxCalls == 3          \* get_client_list calls made in one run, all threads
MaxTicks == 2          \* clock advances in one run
MaxAccounts == 2       \* accounts in one uploaded list

\* ------------------------------------------------------ program constants
CacheTTLHours == 24    \* age_hours < 24
PostAttempts == 3      \* for attempt in range(3)
StatusAttempts == 5    \* for attempt in range(5)
PollIntervalMs == 5000 \* time.sleep(5)
FileTTLHours == 24     \* dash_app: cache_age > timedelta(hours=24)

HoursPerDay == 24      \* strftime("%Y-%m-%d"): the date changes every 24 hours
\* The clock advances by half the cache lifetime at a time.
TickHours == CacheTTLHours \div 2
MaxNow == MaxTicks * TickHours

None == -1
Threads == 1..NThreads
Dates == 1..((MaxNow \div HoursPerDay) + 1)

\* ------------------------------------------------------------------ state
VARIABLES
    run,          \* the run: threads started, calls made at most, remote
    _cache,       \* class attribute: [end_date, timestamp, df]
    _lock,        \* class attribute: 0 when free, else the holding thread
    now,          \* wall clock, hours
    jobs,         \* remote job table: job id -> [end_date, posted, stored]
                  \* and the Authorization and Addepar-Firm of its POST
    pc,           \* position of each thread inside get_client_list
    ncalls,       \* number of get_client_list calls made so far
    end_date,     \* argument of the current / last call
    cached_end,   \* locals of get_client_list
    cached_time,
    cached_df,
    attempt,      \* loop variable of _post_job / _check_status
    job_id,       \* local of get_client_list
    progress,     \* local of get_client_list
    client_df,    \* local of get_client_list
    slept,        \* delays passed to time.sleep by the running / failed callee
    seen,         \* classes of the responses that callee retried on
    posts,        \* POSTs sent by the running / failed _post_job
    gets,         \* GETs sent by the running / failed _check_status
    net,          \* requests sent by the current / last call
    outcome,      \* how the last call ended
    result,       \* DataFrame returned by the last call
    err,          \* exception raised by the last call
    retriever,    \* each thread's AddepalClientRetriever: how it was made
    file,         \* dash_app: cache/addepar_clients.pkl
    view,         \* dash_app: get_addepar_client_list_cached of each thread
    bulk          \* dash_app: check_bulk_accounts: accounts, results, summary

shared == <<run, _cache, _lock, now, jobs>>
locals == <<cached_end, cached_time, cached_df, attempt,
            job_id, progress, client_df>>
ends   == <<outcome, result, err>>
sent   == <<slept, seen, posts, gets, net>>
app    == <<retriever, file, view, bulk>>
vars   == <<run, _cache, _lock, now, jobs, pc, ncalls, end_date, cached_end,
            cached_time, cached_df, attempt, job_id, progress,
            client_df, slept, seen, posts, gets, net, outcome, result, err,
            retriever, file, view, bulk>>

EmptyCache == [end_date |-> None, timestamp |-> None, df |-> None]
\* posted, polled: a POST, a status GET was sent; last: the last response
\* to a status GET; ready: the job a status check reported complete;
\* downloads, asked, got: download GETs, their job, the class of the answer;
\* nodate: the call was made without an end_date.
NoResponse == [status |-> 0, body |-> "", percent |-> 0]
NoNet == [posted |-> FALSE, polled |-> FALSE, last |-> NoResponse,
          ready |-> None, downloads |-> 0, asked |-> None, got |-> "",
          nodate |-> FALSE]

\* The date of the day before.
Today_DayBefore == now \div HoursPerDay

\* datetime.today().strftime("%Y-%m-%d")
Today == (now \div HoursPerDay) + 1

\* response.raise_for_status() raises for 4xx and 5xx
RaisesForStatus(status) == status >= 400 /\ status < 600

\* An exception: its type, its message, and for an HTTPError the status of
\* the response it carries.
NoError == [type |-> "None", msg |-> "", status |-> 0]
HTTPError(resp) == [type |-> "HTTPError", msg |-> "", status |-> resp.status]
ValueError(msg) == [type |-> "ValueError", msg |-> msg, status |-> 0]
AssertionError == [type |-> "AssertionError", msg |-> "", status |-> 0]

\* ------------------------------------------------------------- __init__
\* A credential string: not given (None, or the variable not set), empty,
\* or "username:password".
Unset == "<unset>"
AuthStrings == {Unset, "", "user:pw"}
EnvValues == {Unset, "", "env:pw"}

\* if auth_string: / if auth_env:
Truthy(str) == str # Unset /\ str # ""

\* base64.b64encode(bytes(auth_string, 'utf-8'))
B64(str) == <<"b64", str>>

\* A constructor that asks the environment first.
NewRetriever_EnvFirst(auth_string, auth_env) ==
    IF Truthy(auth_env)
    THEN [auth |-> B64(auth_env), err |-> NoError]
    ELSE IF Truthy(auth_string)
    THEN [auth |-> B64(auth_string), err |-> NoError]
    ELSE [auth |-> <<>>,
          err |-> ValueError("No authentication provided")]

\* AddepalClientRetriever(auth_string) with ADDEPAR_AUTH = auth_env: self.auth,
\* or the exception raised.
NewRetriever(auth_string, auth_env) ==
    IF Truthy(auth_string)
    THEN [auth |-> B64(auth_string), err |-> NoError]
    ELSE IF Truthy(auth_env)
    THEN [auth |-> B64(auth_env), err |-> NoError]
    ELSE [auth |-> <<>>,
          err |-> ValueError("No authentication provided")]

\* firm_id="222"
DefaultFirm == "222"
FirmIds == {DefaultFirm, "333"}

\* The retriever of a thread: the auth_string it was made with, and what
\* the constructor left; the firm is the default one.
Made(auth_string, auth_env) ==
    [arg |-> auth_string,
     firm |-> DefaultFirm,
     auth |-> NewRetriever(auth_string, auth_env).auth,
     err |-> NewRetriever(auth_string, auth_env).err]

\* ------------------------------------------------------- dash_app: cache
\* pd.DataFrame()
EmptyFrame == 0
EOFError == [type |-> "EOFError", msg |-> "Ran out of input", status |-> 0]
FileNotFoundError == [type |-> "FileNotFoundError", msg |-> "", status |-> 0]

\* The cache file: absent; partial, between open(CACHE_FILE, 'wb') and the
\* end of pickle.dump; or whole, with the table pickled in it.
NoFile == [state |-> "absent", mtime |-> None, data |-> None]
\* get_addepar_client_list_cached of a thread: off, busy, returned or
\* raised; the branch it took; the table it returned, the exception it let
\* through; and, when the 'Force Refresh' button started it, the number of
\* jobs submitted before the click.
NoView == [state |-> "off", path |-> "", data |-> None, err |-> NoError,
           since |-> None]

\* check_bulk_accounts before a list is uploaded.
NoBulk == [accounts |-> <<>>, results |-> <<>>, summary |-> ""]

\* The state after the class body has run.  The threads in started are about
\* to call get_client_list, the others make no call; at most maxcalls calls
\* are made; the remote answers with the responses of the class remote.
\* Against the plain remote the callers name their date (the date a call
\* without end_date takes is one of Dates); against any remote a call may
\* leave it out.
\* env is ADDEPAR_AUTH, creds and firms the auth_string and firm_id values
\* constructors are given, horizon the hour the clock stops at.
InitRun(r) ==
    /\ run = r
    /\ _cache = EmptyCache
    /\ _lock = 0
    /\ now = 0
    /\ jobs = <<>>
    /\ pc = [t \in Threads |-> IF t \in r.started THEN "idle" ELSE "off"]
    /\ ncalls = 0
    /\ end_date = [t \in Threads |-> None]
    /\ cached_end = [t \in Threads |-> None]
    /\ cached_time = [t \in Threads |-> None]
    /\ cached_df = [t \in Threads |-> None]
    /\ attempt = [t \in Threads |-> 0]
    /\ job_id = [t \in Threads |-> None]
    /\ progress = [t \in Threads |-> None]
    /\ client_df = [t \in Threads |-> None]
    /\ slept = [t \in Threads |-> <<>>]
    /\ seen = [t \in Threads |-> {}]
    /\ posts = [t \in Threads |-> 0]
    /\ gets = [t \in Threads |-> 0]
    /\ net = [t \in Threads |-> NoNet]
    /\ outcome = [t \in Threads |-> "none"]
    /\ result = [t \in Threads |-> None]
    /\ err = [t \in Threads |-> NoError]
    /\ retriever = [t \in Threads |-> Made("user:pw", r.env)]
    /\ file = NoFile
    /\ view = [t \in Threads |-> NoView]
    /\ bulk = NoBulk

InitWith(started, maxcalls, remote) ==
    InitRun([started |-> started, calls |-> maxcalls, remote |-> remote,
             args |-> IF remote = "any" THEN Dates \cup {None} ELSE Dates,
             env |-> "env:pw", creds |-> {"user:pw"},
             firms |-> {DefaultFirm}, horizon |-> MaxNow])

Init == InitWith(Threads, MaxCalls, "plain")

\* ------------------------------------------------------- remote responses
\* A response to a request: its HTTP status and the class of its body.
PostStatuses == {200, 400, 500}
StatusStatuses == {200, 204, 303, 400, 500}
DownloadStatuses == {200, 500}
JsonBodies == {"empty", "badjson", "nokey", "ok"}
Percents == {0, 50, 100}

\* The body is read only under a status that does not raise; the responses
\* with an error status are listed with one body.
AnyPost ==
    [status : {200}, body : JsonBodies]
        \cup [status : PostStatuses \ {200}, body : {"empty"}]
AnyStatus ==
    [status : {200}, body : {"ok"}, percent : Percents]
        \cup [status : {200, 303}, body : JsonBodies \ {"ok"}, percent : {0}]
        \cup [status : StatusStatuses \ {200}, body : {"empty"}, percent : {0}]
AnyDownload ==
    [status : {200}, body : {"empty", "badcsv", "ok"}]
        \cup [status : DownloadStatuses \ {200}, body : {"empty"}]

\* A remote that fails with error statuses only and sends well-formed bodies.
PlainPost == {r \in AnyPost : r.body = "ok" \/ r.status # 200}
PlainStatus == {r \in AnyStatus : r.body = "ok" \/ r.status \in {204, 303, 500}}
PlainDownload == {r \in AnyDownload : r.body = "ok" \/ r.status # 200}

PostResponses == IF run.remote = "any" THEN AnyPost ELSE PlainPost
StatusResponses == IF run.remote = "any" THEN AnyStatus ELSE PlainStatus
DownloadResponses == IF run.remote = "any" THEN AnyDownload ELSE PlainDownload

\* What a response is, as far as the retry loops tell responses apart.
Class(resp) ==
    IF resp.status >= 500 THEN "5xx"
    ELSE IF resp.status >= 400 THEN "4xx"
    ELSE IF resp.status = 303 THEN "303"
    ELSE IF resp.status = 204 THEN "204"
    ELSE resp.body

\* content = response.content or b""; len(content) == 0
EmptyContent(body) == body = "empty"

\* content.decode('utf-8-sig').strip() then json.loads, falling back to
\* response.json(): fails for a malformed body
ParsesAsJson(body) == body \in {"nokey", "ok"}

\* json_dict['data']['id'] / json_dict['data']['attributes']['percent_complete']
HasExpectedKey(body) == body = "ok"

\* ------------------------------------------------------------- _post_job
PostRetryLimit == 2        \* attempt < 2
\* A constant delay.
PostSleepMs_Constant(att) == 1000

PostSleepMs(att) == 1000 * (1 + att)      \* time.sleep(1 + attempt)

\* Outcome of one loop iteration: sleep and continue, raise, or return.
Retry(ms) == [kind |-> "retry", err |-> NoError, sleep |-> ms, value |-> None]
Throw(e) == [kind |-> "raise", err |-> e, sleep |-> 0, value |-> None]
Give(v) == [kind |-> "return", err |-> NoError, sleep |-> 0, value |-> v]

\* _post_job retrying on every HTTP error, 4xx too.
PostOutcome_Retry4xx(att, resp, newId) ==
    IF RaisesForStatus(resp.status)
    THEN IF att < 2 THEN Retry(1000 * (1 + att)) ELSE Throw(HTTPError(resp))
    ELSE IF resp.body # "ok"
    THEN IF att < 2 THEN Retry(1000 * (1 + att))
         ELSE Throw(ValueError("Unexpected job post JSON structure"))
    ELSE Give(newId)

\* _post_job raising at once on a body without data.id.
PostOutcome_NoKeyFatal(att, resp, newId) ==
    IF RaisesForStatus(resp.status)
    THEN IF resp.status >= 500 /\ att < 2
         THEN Retry(1000 * (1 + att)) ELSE Throw(HTTPError(resp))
    ELSE IF resp.body = "empty"
    THEN IF att < 2 THEN Retry(1000 * (1 + att))
         ELSE Throw(ValueError("Empty response body when posting job"))
    ELSE IF resp.body = "badjson"
    THEN IF att < 2 THEN Retry(1000 * (1 + att))
         ELSE Throw(ValueError("Failed to parse JSON from job post response"))
    ELSE IF resp.body = "nokey"
    THEN Throw(ValueError("Unexpected job post JSON structure"))
    ELSE Give(newId)

\* One iteration of the for loop of _post_job on the response received;
\* newId is the identifier the remote put in data.id.
PostOutcome(att, resp, newId) ==
    IF RaisesForStatus(resp.status)
    THEN IF 500 <= resp.status /\ resp.status < 600 /\ att < PostRetryLimit
         THEN Retry(PostSleepMs(att))
         ELSE Throw(HTTPError(resp))
    ELSE IF EmptyContent(resp.body)
    THEN IF att < PostRetryLimit
         THEN Retry(PostSleepMs(att))
         ELSE Throw(ValueError("Empty response body when posting job"))
    ELSE IF ~ParsesAsJson(resp.body)
    THEN IF att < PostRetryLimit
         THEN Retry(PostSleepMs(att))
         ELSE Throw(ValueError("Failed to parse JSON from job post response"))
    ELSE IF ~HasExpectedKey(resp.body)
    THEN IF att < PostRetryLimit
         THEN Retry(PostSleepMs(att))
         ELSE Throw(ValueError("Unexpected job post JSON structure"))
    ELSE Give(newId)

\* ---------------------------------------------------------- _check_status
StatusRetryLimit == 4      \* attempt < 4
\* Delays growing by a whole second.
StatusSleepMs_WholeSeconds(att) == 1000 * (1 + att)

StatusSleepMs(att) == 1000 + 500 * att    \* time.sleep(1 + 0.5 * attempt)

\* _check_status giving up on the first 5xx.
StatusOutcome_5xxFatal(att, resp) ==
    IF resp.status = 303
    THEN Give(100)
    ELSE IF resp.status = 204
    THEN IF att < 4 THEN Retry(1000 + 500 * att) ELSE Give(0)
    ELSE IF resp.status >= 500
    THEN Throw(HTTPError(resp))
    ELSE IF RaisesForStatus(resp.status)
    THEN IF att < 4 THEN Retry(1000 + 500 * att) ELSE Throw(HTTPError(resp))
    ELSE IF resp.body # "ok"
    THEN IF att < 4 THEN Retry(1000 + 500 * att)
         ELSE Throw(ValueError("Empty response body when checking job status"))
    ELSE Give(resp.percent)

\* _check_status looking at the body before the 303.
StatusOutcome_BodyFirst(att, resp) ==
    IF resp.status = 204
    THEN IF att < 4 THEN Retry(1000 + 500 * att) ELSE Give(0)
    ELSE IF RaisesForStatus(resp.status)
    THEN IF att < 4 THEN Retry(1000 + 500 * att) ELSE Throw(HTTPError(resp))
    ELSE IF resp.body # "ok" /\ att < 4
    THEN Retry(1000 + 500 * att)
    ELSE IF resp.body # "ok"
    THEN Throw(ValueError("Empty response body when checking job status"))
    ELSE IF resp.status = 303
    THEN Give(100)
    ELSE Give(resp.percent)

\* A status check that raises the HTTP error of a 4xx on the attempt that
\* received it, as _post_job does.
StatusOutcome_4xxFatal(att, resp) ==
    IF resp.status = 303
    THEN Give(100)
    ELSE IF resp.status = 204
    THEN IF att < StatusRetryLimit
         THEN Retry(StatusSleepMs(att))
         ELSE Give(0)
    ELSE IF resp.status >= 500 /\ att < StatusRetryLimit
    THEN Retry(StatusSleepMs(att))
    ELSE IF RaisesForStatus(resp.status)
    THEN Throw(HTTPError(resp))
    ELSE IF ~HasExpectedKey(resp.body)
    THEN IF att < StatusRetryLimit
         THEN Retry(StatusSleepMs(att))
         ELSE Throw(ValueError("Unexpected status JSON structure"))
    ELSE Give(resp.percent)

\* A status check whose last iteration retries like the others.
StatusOutcome_NoLastAttempt(att, resp) ==
    IF resp.status = 303
    THEN Give(100)
    ELSE IF resp.status = 200 /\ HasExpectedKey(resp.body)
    THEN Give(resp.percent)
    ELSE Retry(StatusSleepMs(att))

\* One iteration of the for loop of _check_status on the response received.
StatusOutcome(att, resp) ==
    IF resp.status = 303
    THEN Give(100)
    ELSE IF resp.status = 204
    THEN IF att < StatusRetryLimit
         THEN Retry(StatusSleepMs(att))
         ELSE Give(0)
    ELSE IF resp.status >= 500 /\ att < StatusRetryLimit
    THEN Retry(StatusSleepMs(att))
    ELSE IF RaisesForStatus(resp.status)
    THEN IF att < StatusRetryLimit
         THEN Retry(StatusSleepMs(att))
         ELSE Throw(HTTPError(resp))
    ELSE IF EmptyContent(resp.body)
    THEN IF att < StatusRetryLimit
         THEN Retry(StatusSleepMs(att))
         ELSE Throw(ValueError("Empty response body when checking job status"))
    ELSE IF ~ParsesAsJson(resp.body)
    THEN IF att < StatusRetryLimit
         THEN Retry(StatusSleepMs(att))
         ELSE Throw(ValueError("Failed to parse JSON from job status"))
    ELSE IF ~HasExpectedKey(resp.body)
    THEN IF att < StatusRetryLimit
         THEN Retry(StatusSleepMs(att))
         ELSE Throw(ValueError("Unexpected status JSON structure"))
    ELSE Give(resp.percent)

\* ------------------------------------------------------ _download_results
\* _download_results taking an empty body for an empty table.
DownloadOutcome_EmptyOk(resp, job) ==
    IF RaisesForStatus(resp.status)
    THEN Throw(HTTPError(resp))
    ELSE IF resp.body = "badcsv"
    THEN Throw(ValueError("Failed to parse CSV download"))
    ELSE Give(job)

DownloadOutcome(resp, job) ==
    IF RaisesForStatus(resp.status)
    THEN Throw(HTTPError(resp))
    ELSE IF EmptyContent(resp.body)
    THEN Throw(ValueError("Empty CSV download content from Addepar"))
    ELSE IF resp.body = "badcsv"
    THEN Throw(ValueError("Failed to parse CSV download"))
    ELSE Give(job)

\* -------------------------------------------------------- get_client_list
\* A cache test that also wants the entry to come from a retriever with the
\* credentials and the firm of the caller making the test.
CacheHit_OwnEntry(c_end, c_time, c_df, date, clock) ==
    /\ c_df # None
    /\ c_end = date
    /\ c_time # None
    /\ clock - c_time < CacheTTLHours
    /\ \A t \in Threads :
           pc[t] \in {"check", "recheck"} =>
               /\ jobs[c_df].auth = retriever[t].auth
               /\ jobs[c_df].firm = retriever[t].firm

\* The age test turned round.
CacheHit_AgeReversed(c_end, c_time, c_df, date, clock) ==
    /\ c_df # None
    /\ c_end = date
    /\ c_time # None
    /\ clock - c_time >= CacheTTLHours

\* cached_df is not None and cached_end == end_date and cached_time is not
\* None, then age_hours = (now - cached_time) in hours, age_hours < 24
CacheHit(c_end, c_time, c_df, date, clock) ==
    /\ c_df # None
    /\ c_end = date
    /\ c_time # None
    /\ clock - c_time < CacheTTLHours

\* The locals of a call go away when it returns or raises.
DropLocals(t) ==
    /\ cached_end' = [cached_end EXCEPT ![t] = None]
    /\ cached_time' = [cached_time EXCEPT ![t] = None]
    /\ cached_df' = [cached_df EXCEPT ![t] = None]
    /\ attempt' = [attempt EXCEPT ![t] = 0]
    /\ job_id' = [job_id EXCEPT ![t] = None]
    /\ progress' = [progress EXCEPT ![t] = None]
    /\ client_df' = [client_df EXCEPT ![t] = None]

\* return df
Return(t, df, how) ==
    /\ pc' = [pc EXCEPT ![t] = "done"]
    /\ outcome' = [outcome EXCEPT ![t] = how]
    /\ result' = [result EXCEPT ![t] = df]
    /\ err' = [err EXCEPT ![t] = NoError]
    /\ DropLocals(t)

\* An exception that leaves the lock as it is.
Raise_KeepsLock(t, e) ==
    /\ pc' = [pc EXCEPT ![t] = "done"]
    /\ outcome' = [outcome EXCEPT ![t] = "raised"]
    /\ result' = [result EXCEPT ![t] = None]
    /\ err' = [err EXCEPT ![t] = e]
    /\ UNCHANGED _lock
    /\ DropLocals(t)

\* An exception leaves get_client_list; the with block releases the lock.
Raise(t, e) ==
    /\ pc' = [pc EXCEPT ![t] = "done"]
    /\ outcome' = [outcome EXCEPT ![t] = "raised"]
    /\ result' = [result EXCEPT ![t] = None]
    /\ err' = [err EXCEPT ![t] = e]
    /\ _lock' = 0
    /\ DropLocals(t)

\* A thread calls get_client_list(d); d = None stands for no end_date.
Call(t, d) ==
    /\ pc[t] \in {"idle", "done", "app_done"}
    /\ view[t].state # "busy"
    /\ retriever[t].err = NoError
    /\ ncalls < run.calls
    /\ pc' = [pc EXCEPT ![t] = "read_end"]
    /\ ncalls' = ncalls + 1
    /\ end_date' = [end_date EXCEPT ![t] = IF d = None THEN Today ELSE d]
    /\ slept' = [slept EXCEPT ![t] = <<>>]
    /\ seen' = [seen EXCEPT ![t] = {}]
    /\ posts' = [posts EXCEPT ![t] = 0]
    /\ gets' = [gets EXCEPT ![t] = 0]
    /\ net' = [net EXCEPT ![t] = [NoNet EXCEPT !.nodate = (d = None)]]
    /\ outcome' = [outcome EXCEPT ![t] = "none"]
    /\ result' = [result EXCEPT ![t] = None]
    /\ err' = [err EXCEPT ![t] = NoError]
    /\ UNCHANGED <<shared, locals>>
    /\ UNCHANGED app

\* cached_end = self.__class__._cache['end_date']   (no lock held)
ReadEnd(t) ==
    /\ pc[t] = "read_end"
    /\ cached_end' = [cached_end EXCEPT ![t] = _cache.end_date]
    /\ pc' = [pc EXCEPT ![t] = "read_time"]
    /\ UNCHANGED <<shared, ncalls, end_date, cached_time, cached_df, attempt,
                   job_id, progress, client_df, sent, ends>>
    /\ UNCHANGED app

\* cached_time = self.__class__._cache['timestamp']   (no lock held)
ReadTime(t) ==
    /\ pc[t] = "read_time"
    /\ cached_time' = [cached_time EXCEPT ![t] = _cache.timestamp]
    /\ pc' = [pc EXCEPT ![t] = "read_df"]
    /\ UNCHANGED <<shared, ncalls, end_date, cached_end, cached_df, attempt,
                   job_id, progress, client_df, sent, ends>>
    /\ UNCHANGED app

\* cached_df = self.__class__._cache['df']   (no lock held)
ReadDf(t) ==
    /\ pc[t] = "read_df"
    /\ cached_df' = [cached_df EXCEPT ![t] = _cache.df]
    /\ pc' = [pc EXCEPT ![t] = "check"]
    /\ UNCHANGED <<shared, ncalls, end_date, cached_end, cached_time, attempt,
                   job_id, progress, client_df, sent, ends>>
    /\ UNCHANGED app

\* A pre-lock test that never finds the entry.
PreLockHit_Never(t) == FALSE

\* The pre-lock test on the three locals.
PreLockHit(t) ==
    CacheHit(cached_end[t], cached_time[t], cached_df[t], end_date[t], now)

\* The fast path: return the cached table, or go on to the lock.
FastCheck(t) ==
    /\ pc[t] = "check"
    /\ IF PreLockHit(t)
       THEN Return(t, cached_df[t], "fast")
       ELSE \* the three locals are not read again before the re-check
            \* assigns them: they are dropped here
            /\ pc' = [pc EXCEPT ![t] = "lock"]
            /\ cached_end' = [cached_end EXCEPT ![t] = None]
            /\ cached_time' = [cached_time EXCEPT ![t] = None]
            /\ cached_df' = [cached_df EXCEPT ![t] = None]
            /\ UNCHANGED <<attempt, job_id, progress, client_df, ends>>
    /\ UNCHANGED <<shared, ncalls, end_date, sent>>
    /\ UNCHANGED app

\* A lock that never blocks.
LockFree_NoWait(t) == TRUE

\* threading.Lock.acquire blocks until the lock is free
LockFree(t) == _lock = 0

\* with self.__class__._lock:
Acquire(t) ==
    /\ pc[t] = "lock"
    /\ LockFree(t)
    /\ _lock' = t
    /\ pc' = [pc EXCEPT ![t] = "recheck"]
    /\ UNCHANGED <<run, _cache, now, jobs, ncalls, end_date, locals, sent, ends>>
    /\ UNCHANGED app

\* A re-check that never finds the entry.
PostLockHit_Never(t) == FALSE

\* A re-check that lets an entry of exactly 24 hours pass.
PostLockHit_Inclusive(t) ==
    /\ _cache.df # None
    /\ _cache.end_date = end_date[t]
    /\ _cache.timestamp # None
    /\ now - _cache.timestamp <= CacheTTLHours

\* The post-lock test.  Only a lock holder assigns _cache, so the three
\* reads under the lock see one entry.
PostLockHit(t) ==
    CacheHit(_cache.end_date, _cache.timestamp, _cache.df, end_date[t], now)

\* The re-check under the lock: return the cached table and release the
\* lock, or go on to _post_job.
Recheck(t) ==
    /\ pc[t] = "recheck"
    /\ IF PostLockHit(t)
       THEN /\ Return(t, _cache.df, "postlock")
            /\ _lock' = 0
       ELSE /\ pc' = [pc EXCEPT ![t] = "post"]
            /\ cached_end' = [cached_end EXCEPT ![t] = _cache.end_date]
            /\ cached_time' = [cached_time EXCEPT ![t] = _cache.timestamp]
            /\ cached_df' = [cached_df EXCEPT ![t] = _cache.df]
            /\ UNCHANGED <<_lock, attempt, job_id, progress, client_df, ends>>
    /\ UNCHANGED <<run, _cache, now, jobs, ncalls, end_date, sent>>
    /\ UNCHANGED app

\* One iteration of the loop of _post_job: requests.post and what follows.
\* Past the last iteration the trailing assert raises.
PostAttempt(t, resp) ==
    /\ pc[t] = "post"
    /\ IF attempt[t] >= PostAttempts
       THEN /\ Raise(t, AssertionError)
            /\ UNCHANGED <<jobs, sent>>
       ELSE LET out == PostOutcome(attempt[t], resp, Len(jobs) + 1)
            IN  /\ net' = [net EXCEPT ![t].posted = TRUE]
                /\ UNCHANGED gets
                /\ CASE out.kind = "retry" ->
                          /\ attempt' = [attempt EXCEPT ![t] = @ + 1]
                          /\ posts' = [posts EXCEPT ![t] = @ + 1]
                          /\ slept' = [slept EXCEPT ![t] = Append(@, out.sleep)]
                          /\ seen' = [seen EXCEPT ![t] = @ \cup {Class(resp)}]
                          /\ UNCHANGED <<_lock, jobs, pc, cached_end, cached_time,
                                         cached_df, job_id, progress, client_df, ends>>
                     [] out.kind = "raise" ->
                          /\ Raise(t, out.err)
                          /\ posts' = [posts EXCEPT ![t] = @ + 1]
                          /\ UNCHANGED <<jobs, slept, seen>>
                     [] out.kind = "return" ->
                          /\ jobs' = Append(jobs, [end_date |-> end_date[t],
                                                   posted |-> now, stored |-> None,
                                                   auth |-> retriever[t].auth,
                                                   firm |-> retriever[t].firm])
                          /\ job_id' = [job_id EXCEPT ![t] = out.value]
                          /\ pc' = [pc EXCEPT ![t] = "status"]
                          /\ attempt' = [attempt EXCEPT ![t] = 0]
                          /\ posts' = [posts EXCEPT ![t] = 0]
                          /\ slept' = [slept EXCEPT ![t] = <<>>]
                          /\ seen' = [seen EXCEPT ![t] = {}]
                          /\ UNCHANGED <<_lock, cached_end, cached_time, cached_df,
                                         progress, client_df, ends>>
    /\ UNCHANGED <<run, _cache, now, ncalls, end_date>>
    /\ UNCHANGED app

\* A poll loop that takes half the work for all of it.
Complete_Half(p) == p >= 50

\* A poll loop that ends on the first answer.
Complete_Always(p) == TRUE

\* if progress >= 1.0: break
Complete(p) == p >= 100

\* One iteration of the loop of _check_status, and on its return the test
\* progress >= 1.0 of the poll loop, which enters time.sleep(5) when the job
\* is not complete.
StatusAttempt(t, resp) ==
    /\ pc[t] = "status"
    /\ IF attempt[t] >= StatusAttempts
       THEN /\ Raise(t, AssertionError)
            /\ UNCHANGED sent
       ELSE LET out == StatusOutcome(attempt[t], resp)
            IN  /\ net' = [net EXCEPT ![t].polled = TRUE,
                                      ![t].last = resp,
                                      ![t].ready = IF out.kind = "return" /\ out.value >= 100
                                                   THEN job_id[t] ELSE @]
                /\ UNCHANGED posts
                /\ CASE out.kind = "retry" ->
                          /\ attempt' = [attempt EXCEPT ![t] = @ + 1]
                          /\ gets' = [gets EXCEPT ![t] = @ + 1]
                          /\ slept' = [slept EXCEPT ![t] = Append(@, out.sleep)]
                          /\ seen' = [seen EXCEPT ![t] = @ \cup {Class(resp)}]
                          /\ UNCHANGED <<_lock, pc, cached_end, cached_time,
                                         cached_df, job_id, progress, client_df, ends>>
                     [] out.kind = "raise" ->
                          /\ Raise(t, out.err)
                          /\ gets' = [gets EXCEPT ![t] = @ + 1]
                          /\ UNCHANGED <<slept, seen>>
                     [] out.kind = "return" ->
                          /\ progress' = [progress EXCEPT ![t] = out.value]
                          /\ pc' = [pc EXCEPT ![t] =
                                       IF Complete(out.value) THEN "download" ELSE "poll_wait"]
                          /\ attempt' = [attempt EXCEPT ![t] = 0]
                          /\ gets' = [gets EXCEPT ![t] = 0]
                          /\ slept' = [slept EXCEPT ![t] =
                                          IF Complete(out.value) THEN <<>>
                                          ELSE <<PollIntervalMs>>]
                          /\ seen' = [seen EXCEPT ![t] =
                                         IF Complete(out.value) THEN {} ELSE @]
                          /\ UNCHANGED <<_lock, cached_end, cached_time, cached_df,
                                         job_id, client_df, ends>>
    /\ UNCHANGED <<run, _cache, now, jobs, ncalls, end_date>>
    /\ UNCHANGED app

\* time.sleep(5) of the poll loop is over: the next _check_status call.
\* progress is not read again before that call assigns it: it is dropped.
PollSleep(t) ==
    /\ pc[t] = "poll_wait"
    /\ pc' = [pc EXCEPT ![t] = "status"]
    /\ progress' = [progress EXCEPT ![t] = None]
    /\ slept' = [slept EXCEPT ![t] = <<>>]
    /\ seen' = [seen EXCEPT ![t] = {}]
    /\ net' = [net EXCEPT ![t].last = NoResponse]
    /\ UNCHANGED <<shared, ncalls, end_date, cached_end, cached_time, cached_df,
                   attempt, job_id, client_df, posts, gets, ends>>
    /\ UNCHANGED app

\* A cache filled in before the download is parsed.
Download_CachesFirst(t, resp) ==
    /\ pc[t] = "download"
    /\ _cache' = [end_date |-> end_date[t], timestamp |-> now, df |-> job_id[t]]
    /\ LET out == DownloadOutcome(resp, job_id[t])
       IN  /\ net' = [net EXCEPT ![t].downloads = @ + 1, ![t].asked = job_id[t],
                                 ![t].got = Class(resp)]
           /\ UNCHANGED <<slept, seen, posts, gets>>
           /\ IF out.kind = "raise"
              THEN Raise(t, out.err)
              ELSE /\ client_df' = [client_df EXCEPT ![t] = out.value]
                   /\ pc' = [pc EXCEPT ![t] = "store"]
                   /\ UNCHANGED <<_lock, cached_end, cached_time, cached_df, attempt,
                                  job_id, progress, ends>>
    /\ UNCHANGED <<run, now, jobs, ncalls, end_date>>
    /\ UNCHANGED app

\* _download_results(job_id): one GET, no loop
Download(t, resp) ==
    /\ pc[t] = "download"
    /\ LET out == DownloadOutcome(resp, job_id[t])
       IN  /\ net' = [net EXCEPT ![t].downloads = @ + 1, ![t].asked = job_id[t],
                                 ![t].got = Class(resp)]
           /\ UNCHANGED <<slept, seen, posts, gets>>
           /\ IF out.kind = "raise"
              THEN Raise(t, out.err)
              ELSE /\ client_df' = [client_df EXCEPT ![t] = out.value]
                   /\ pc' = [pc EXCEPT ![t] = "store"]
                   /\ UNCHANGED <<_lock, cached_end, cached_time, cached_df, attempt,
                                  job_id, progress, ends>>
    /\ UNCHANGED <<run, _cache, now, jobs, ncalls, end_date>>
    /\ UNCHANGED app

\* A cache that keeps the entry it has.
NewCache_KeepFirst(old, date, clock, df) ==
    IF old.df # None THEN old
    ELSE [end_date |-> date, timestamp |-> clock, df |-> df]

\* self.__class__._cache = {'end_date': ..., 'timestamp': ..., 'df': ...}
NewCache(old, date, clock, df) ==
    [end_date |-> date, timestamp |-> clock, df |-> df]

\* Update the cache, leave the with block, return client_df.
Store(t) ==
    /\ pc[t] = "store"
    /\ _cache' = NewCache(_cache, end_date[t], now, client_df[t])
    /\ jobs' = [jobs EXCEPT ![client_df[t]].stored = now]
    /\ _lock' = 0
    /\ Return(t, client_df[t], "fetched")
    /\ net' = [net EXCEPT ![t].last = NoResponse]
    /\ UNCHANGED <<run, now, ncalls, end_date, slept, seen, posts, gets>>
    /\ UNCHANGED app

\* Time passes.
Tick ==
    /\ now + TickHours <= run.horizon
    /\ now' = now + TickHours
    /\ UNCHANGED <<run, _cache, _lock, jobs, pc, ncalls, end_date, locals, sent, ends>>
    /\ UNCHANGED app

Next ==
    \/ \E t \in Threads, d \in run.args : Call(t, d)
    \/ \E t \in Threads : ReadEnd(t)
    \/ \E t \in Threads : ReadTime(t)
    \/ \E t \in Threads : ReadDf(t)
    \/ \E t \in Threads : FastCheck(t)
    \/ \E t \in Threads : Acquire(t)
    \/ \E t \in Threads : Recheck(t)
    \/ \E t \in Threads, resp \in PostResponses : PostAttempt(t, resp)
    \/ \E t \in Threads, resp \in StatusResponses : StatusAttempt(t, resp)
    \/ \E t \in Threads : PollSleep(t)
    \/ \E t \in Threads, resp \in DownloadResponses : Download(t, resp)
    \/ \E t \in Threads : Store(t)
    \/ Tick

\* Every thread calls get_client_list, against the plain remote.
Spec == Init /\ [][Next]_vars

\* One thread calls get_client_list, call after call, against the plain
\* remote.
InitSeq == InitWith({1}, MaxCalls, "plain")

SpecSeq == InitSeq /\ [][Next]_vars

\* One thread makes one call, against a remote that answers with any response.
InitRetry == InitWith({1}, 1, "any")

SpecRetry == InitRetry /\ [][Next]_vars

\* The steps of thread t inside get_client_list.
Run(t) ==
    \/ ReadEnd(t) \/ ReadTime(t) \/ ReadDf(t) \/ FastCheck(t)
    \/ Acquire(t) \/ Recheck(t)
    \/ \E resp \in PostResponses : PostAttempt(t, resp)
    \/ \E resp \in StatusResponses : StatusAttempt(t, resp)
    \/ PollSleep(t)
    \/ \E resp \in DownloadResponses : Download(t, resp)
    \/ Store(t)

\* A thread that can take a step is scheduled in the end, and every request
\* is answered; which answer the remote gives stays its choice.
Fairness == \A t \in Threads : WF_vars(Run(t))

\* One thread makes one call against any remote, and keeps running.
SpecPoll == InitRetry /\ [][Next]_vars /\ Fairness

\* Every thread calls get_client_list against the plain remote, and keeps
\* running.
InitLive == InitWith(Threads, MaxCalls - 1, "plain")

SpecLive == InitLive /\ [][Next]_vars /\ Fairness

\* ------------------------------------- dash_app: get_addepar_client_list_cached
\* CACHE_FILE.exists() fails, or the file is more than 24 hours old.
NeedRefresh ==
    \/ file.state = "absent"
    \/ now - file.mtime > FileTTLHours

\* A callback calls get_addepar_client_list_cached: the test of the file.
AppCall(t) ==
    /\ pc[t] \in {"idle", "done", "app_done"}
    /\ view[t].state # "busy"
    /\ ncalls < run.calls
    /\ ncalls' = ncalls + 1
    /\ view' = [view EXCEPT ![t] =
                   [NoView EXCEPT !.state = "busy",
                                  !.path = IF NeedRefresh THEN "fetch" ELSE "cached"]]
    /\ pc' = [pc EXCEPT ![t] = IF NeedRefresh THEN "app_fetch" ELSE "app_read"]
    /\ UNCHANGED <<shared, end_date, locals, sent, ends, retriever, file>>
    /\ UNCHANGED bulk

\* retriever = AddepalClientRetriever(), then retriever.get_client_list with
\* today's date; a constructor that raises goes to the handler.
AppFetch(t) ==
    /\ pc[t] = "app_fetch"
    /\ retriever' = [retriever EXCEPT ![t] = Made(Unset, run.env)]
    /\ IF Made(Unset, run.env).err # NoError
       THEN /\ pc' = [pc EXCEPT ![t] = "app_except"]
            /\ UNCHANGED <<end_date, sent, ends>>
       ELSE /\ pc' = [pc EXCEPT ![t] = "read_end"]
            /\ end_date' = [end_date EXCEPT ![t] = Today]
            /\ slept' = [slept EXCEPT ![t] = <<>>]
            /\ seen' = [seen EXCEPT ![t] = {}]
            /\ posts' = [posts EXCEPT ![t] = 0]
            /\ gets' = [gets EXCEPT ![t] = 0]
            /\ net' = [net EXCEPT ![t] = NoNet]
            /\ outcome' = [outcome EXCEPT ![t] = "none"]
            /\ result' = [result EXCEPT ![t] = None]
            /\ err' = [err EXCEPT ![t] = NoError]
    /\ UNCHANGED <<shared, ncalls, locals, file, view>>
    /\ UNCHANGED bulk

\* get_client_list returned: open(CACHE_FILE, 'wb') truncates the file.
AppSave(t) ==
    /\ pc[t] = "done" /\ view[t].state = "busy"
    /\ outcome[t] # "raised"
    /\ file' = [state |-> "partial", mtime |-> now, data |-> None]
    /\ pc' = [pc EXCEPT ![t] = "app_dump"]
    /\ UNCHANGED <<shared, ncalls, end_date, locals, sent, ends, retriever, view>>
    /\ UNCHANGED bulk

\* pickle.dump(cache_data, f), the file is closed, return addepar_df.
AppDump(t) ==
    /\ pc[t] = "app_dump"
    /\ file' = [state |-> "whole", mtime |-> now, data |-> result[t]]
    /\ view' = [view EXCEPT ![t].state = "returned", ![t].path = "fresh",
                            ![t].data = result[t], ![t].err = NoError]
    /\ pc' = [pc EXCEPT ![t] = "app_done"]
    /\ UNCHANGED <<shared, ncalls, end_date, locals, sent, ends, retriever>>
    /\ UNCHANGED bulk

\* except Exception: the constructor or get_client_list raised; the test
\* CACHE_FILE.exists() of the handler, and return pd.DataFrame() without a
\* file.
AppExcept(t) ==
    /\ \/ pc[t] = "app_except"
       \/ pc[t] = "done" /\ view[t].state = "busy" /\ outcome[t] = "raised"
    /\ IF file.state # "absent"
       THEN /\ pc' = [pc EXCEPT ![t] = "app_stale"]
            /\ view' = [view EXCEPT ![t].path = "stale"]
       ELSE /\ pc' = [pc EXCEPT ![t] = "app_done"]
            /\ view' = [view EXCEPT ![t].state = "returned", ![t].path = "empty",
                                    ![t].data = EmptyFrame, ![t].err = NoError]
    /\ UNCHANGED <<shared, ncalls, end_date, locals, sent, ends, retriever, file>>
    /\ UNCHANGED bulk

\* pickle.load of a file: the table, or the exception of a file that is
\* gone or not written to its end.
Unpickle(f) ==
    IF f.state = "whole" THEN [data |-> f.data, err |-> NoError]
    ELSE IF f.state = "partial" THEN [data |-> None, err |-> EOFError]
    ELSE [data |-> None, err |-> FileNotFoundError]

\* with open(CACHE_FILE, 'rb') as f: cache_data = pickle.load(f), in the
\* handler and on the path without refresh; no handler is around it.
AppRead(t) ==
    /\ pc[t] \in {"app_read", "app_stale"}
    /\ view' = [view EXCEPT ![t].state = IF Unpickle(file).err = NoError
                                         THEN "returned" ELSE "raised",
                            ![t].data = Unpickle(file).data,
                            ![t].err = Unpickle(file).err]
    /\ pc' = [pc EXCEPT ![t] = "app_done"]
    /\ UNCHANGED <<shared, ncalls, end_date, locals, sent, ends, retriever, file>>
    /\ UNCHANGED bulk

\* update_addepar_cache triggered by the 'Force Refresh' button: the cache
\* file is deleted when it exists, then get_addepar_client_list_cached is
\* called.
ForceRefresh(t) ==
    /\ pc[t] \in {"idle", "done", "app_done"}
    /\ view[t].state # "busy"
    /\ ncalls < run.calls
    /\ ncalls' = ncalls + 1
    /\ file' = NoFile
    /\ view' = [view EXCEPT ![t] =
                   [NoView EXCEPT !.state = "busy", !.path = "forced",
                                  !.since = Len(jobs)]]
    /\ pc' = [pc EXCEPT ![t] = "app_test"]
    /\ UNCHANGED <<shared, end_date, locals, sent, ends, retriever>>
    /\ UNCHANGED bulk

\* The test of the file in the call that follows the deletion.
AppTest(t) ==
    /\ pc[t] = "app_test"
    /\ view' = [view EXCEPT ![t].path = IF NeedRefresh THEN "fetch" ELSE "cached"]
    /\ pc' = [pc EXCEPT ![t] = IF NeedRefresh THEN "app_fetch" ELSE "app_read"]
    /\ UNCHANGED <<shared, ncalls, end_date, locals, sent, ends, retriever, file>>
    /\ UNCHANGED bulk

\* A thread makes itself a retriever:
\* AddepalClientRetriever(auth_string, firm_id).
Construct(t, auth_string, firm_id) ==
    /\ pc[t] \in {"idle", "done", "app_done"}
    /\ view[t].state # "busy"
    /\ retriever' = [retriever EXCEPT ![t] =
                        [Made(auth_string, run.env) EXCEPT !.firm = firm_id]]
    /\ UNCHANGED <<shared, pc, ncalls, end_date, locals, sent, ends, file, view>>
    /\ UNCHANGED bulk

\* The retriever under the Dash app: every callback goes through
\* get_addepar_client_list_cached, which makes the retriever and the call.
NextApp ==
    \/ \E t \in Threads : ReadEnd(t)
    \/ \E t \in Threads : ReadTime(t)
    \/ \E t \in Threads : ReadDf(t)
    \/ \E t \in Threads : FastCheck(t)
    \/ \E t \in Threads : Acquire(t)
    \/ \E t \in Threads : Recheck(t)
    \/ \E t \in Threads, resp \in PostResponses : PostAttempt(t, resp)
    \/ \E t \in Threads, resp \in StatusResponses : StatusAttempt(t, resp)
    \/ \E t \in Threads : PollSleep(t)
    \/ \E t \in Threads, resp \in DownloadResponses : Download(t, resp)
    \/ \E t \in Threads : Store(t)
    \/ Tick
    \/ \E t \in Threads : AppCall(t)
    \/ \E t \in Threads : AppFetch(t)
    \/ \E t \in Threads : AppSave(t)
    \/ \E t \in Threads : AppDump(t)
    \/ \E t \in Threads : AppExcept(t)
    \/ \E t \in Threads : AppRead(t)

\* Two threads of the app, the plain remote, ADDEPAR_AUTH set; the clock
\* runs past the lifetime of the file.
InitApp ==
    InitRun([started |-> Threads, calls |-> MaxCalls - 1, remote |-> "plain",
             args |-> Dates, env |-> "env:pw", creds |-> {"user:pw"},
             firms |-> {DefaultFirm},
             horizon |-> MaxNow + TickHours])

SpecApp == InitApp /\ [][NextApp]_vars

\* The app with its 'Force Refresh' button.
NextRefresh ==
    \/ NextApp
    \/ \E t \in Threads : ForceRefresh(t)
    \/ \E t \in Threads : AppTest(t)

\* One callback at a time, the plain remote, ADDEPAR_AUTH set.
InitRefresh ==
    InitRun([started |-> {1}, calls |-> MaxCalls, remote |-> "plain",
             args |-> Dates, env |-> "env:pw", creds |-> {"user:pw"},
             firms |-> {DefaultFirm}, horizon |-> MaxNow + TickHours])

SpecRefresh == InitRefresh /\ [][NextRefresh]_vars

\* A caller of the class alone: retrievers made with any credentials, one
\* call, any remote, ADDEPAR_AUTH set to anything or not set.
NextClient ==
    \/ Next
    \/ \E t \in Threads, auth_string \in run.creds, firm_id \in run.firms :
           Construct(t, auth_string, firm_id)

InitClient ==
    \E auth_env \in EnvValues :
        InitRun([started |-> {1}, calls |-> 1, remote |-> "any",
                 args |-> Dates \cup {None}, env |-> auth_env,
                 creds |-> AuthStrings, firms |-> {DefaultFirm},
                 horizon |-> MaxNow])

SpecClient == InitClient /\ [][NextClient]_vars

\* One thread makes retrievers with the parameter's credentials or the
\* environment's and with either firm, and calls get_client_list on them, call
\* after call, against the plain remote.
InitShared ==
    InitRun([started |-> {1}, calls |-> MaxCalls - 1, remote |-> "plain",
             args |-> Dates, env |-> "env:pw", creds |-> {Unset, "user:pw"},
             firms |-> FirmIds, horizon |-> MaxNow])

SpecShared == InitShared /\ [][NextClient]_vars

\* ------------------------------------------ dash_app: check_bulk_accounts
\* Account numbers as typed, and str(act_no).replace("-", '').
Accounts == {"123", "1-23", "456"}
Clean(act_no) == IF act_no = "1-23" THEN "123" ELSE act_no
CleanAccounts == {Clean(a) : a \in Accounts}

\* The restriction tracker: not readable, or the list of its 'Account #'
\* column.  The Addepar table: the list of its account column, empty for an
\* empty DataFrame.
Trackers ==
    {[readable |-> FALSE, rows |-> {}]}
        \cup {[readable |-> TRUE, rows |-> S] : S \in SUBSET CleanAccounts}
Tables == SUBSET CleanAccounts

\* A Python value that is True, False or None.
Tri(b) == IF b THEN "True" ELSE "False"

\* check_restrictions_and_addepar(act_no, addepar_accounts)
check_restrictions_and_addepar(act_no, tracker, addepar_accounts) ==
    [is_restricted |-> IF tracker.readable
                       THEN Tri(Clean(act_no) \in tracker.rows)
                       ELSE "None",
     in_addepar |-> IF addepar_accounts # {}
                    THEN Tri(Clean(act_no) \in addepar_accounts)
                    ELSE "None"]

\* get_account_status(is_restricted, in_addepar): the status text
get_account_status(is_restricted, in_addepar) ==
    IF in_addepar # "None" /\ in_addepar # "True"
    THEN "NOT IN ADDEPAR"
    ELSE IF is_restricted = "None"
    THEN "RESTRICTION CHECK ERROR"
    ELSE IF is_restricted = "True"
    THEN "RESTRICTED"
    ELSE "ALL CLEAR"

\* One entry of results, lines 429-438.
Row(acc, tracker, addepar_accounts) ==
    LET c == check_restrictions_and_addepar(acc, tracker, addepar_accounts)
    IN  [account |-> acc,
         is_restricted |-> c.is_restricted,
         in_addepar |-> c.in_addepar,
         InAddepar |-> IF c.in_addepar = "True" THEN "Yes" ELSE "No",
         TradingStatus |-> IF c.is_restricted = "True" THEN "Restricted" ELSE "Clear",
         OverallStatus |-> get_account_status(c.is_restricted, c.in_addepar)]

\* clear_count == total_count
Summary(results) ==
    IF Cardinality({i \in 1..Len(results) :
                       results[i].OverallStatus = "ALL CLEAR"}) = Len(results)
    THEN "ALL ACCOUNTS CLEAR"
    ELSE "ISSUES FOUND"

\* The lists a user can upload: one account or more.
Uploads == UNION {[1..n -> Accounts] : n \in 1..MaxAccounts}

\* stored-data changes: check_bulk_accounts starts on the uploaded list.
Upload(accs) ==
    /\ bulk = NoBulk
    /\ bulk' = [NoBulk EXCEPT !.accounts = accs]
    /\ UNCHANGED <<shared, pc, ncalls, end_date, locals, sent, ends,
                   retriever, file, view>>

\* One iteration of 'for acc in accounts'.
CheckAccount ==
    /\ Len(bulk.results) < Len(bulk.accounts)
    /\ bulk' = [bulk EXCEPT !.results =
                   Append(@, Row(bulk.accounts[Len(bulk.results) + 1],
                                 run.tracker, run.addepar))]
    /\ UNCHANGED <<shared, pc, ncalls, end_date, locals, sent, ends,
                   retriever, file, view>>

\* The summary alert after the loop.
Summarise ==
    /\ bulk.accounts # <<>>
    /\ Len(bulk.results) = Len(bulk.accounts)
    /\ bulk.summary = ""
    /\ bulk' = [bulk EXCEPT !.summary = Summary(bulk.results)]
    /\ UNCHANGED <<shared, pc, ncalls, end_date, locals, sent, ends,
                   retriever, file, view>>

NextBulk ==
    \/ \E accs \in Uploads : Upload(accs)
    \/ CheckAccount
    \/ Summarise

\* A bulk check of any uploaded list, with any restriction tracker and any
\* Addepar table; no thread calls the retriever.
InitBulk ==
    \E tracker \in Trackers, addepar_accounts \in Tables :
        InitRun([started |-> {}, calls |-> 0, remote |-> "plain",
                 args |-> Dates, env |-> "env:pw", creds |-> {"user:pw"},
                 firms |-> {DefaultFirm}, horizon |-> 0,
                 tracker |-> tracker, addepar |-> addepar_accounts])

SpecBulk == InitBulk /\ [][NextBulk]_vars

\* ----------------------------------------------------------------- claims
InSection == {"recheck", "post", "status", "poll_wait", "download", "store"}
FromCache == {"fast", "postlock"}
Done(t) == pc[t] = "done"
Served(t) == Done(t) /\ outcome[t] \in FromCache
Stored(i) == i \in 1..Len(jobs) /\ jobs[i].stored # None

\* C1: when every thread makes one call for the same date on the empty
\* cache, all calls end within 24 hours and none raises, one job has been
\* submitted in all, one caller fetched it, every other caller was served by
\* the fast path or by the re-check under the lock, and all hold that job's
\* table.
C1_OneSubmissionForAll ==
    ( /\ ncalls = NThreads
      /\ \A t \in Threads : Done(t) /\ outcome[t] # "raised"
      /\ \A t, u \in Threads : end_date[t] = end_date[u]
      /\ now < CacheTTLHours )
    => /\ Len(jobs) = 1
       /\ Cardinality({t \in Threads : outcome[t] = "fetched"}) = 1
       /\ \A t \in Threads : result[t] = 1

C1_Witness ==
    /\ ncalls = NThreads
    /\ \A t \in Threads : Done(t) /\ end_date[t] = 1
    /\ Len(jobs) = 1
    /\ \E t \in Threads : outcome[t] = "fetched" /\ result[t] = 1
    /\ \E t \in Threads : outcome[t] = "postlock" /\ result[t] = 1

\* C2: at most one thread is between the acquisition and the release of the
\* lock, that thread is the one the lock names, and so at most one job is
\* being submitted, polled or downloaded at any time.
C2_OneInSection ==
    /\ Cardinality({t \in Threads : pc[t] \in InSection}) <= 1
    /\ \A t \in Threads : pc[t] \in InSection <=> _lock = t
    /\ Cardinality({i \in 1..Len(jobs) :
                       \E t \in Threads : pc[t] \in InSection /\ job_id[t] = i}) <= 1

C2_Witness ==
    \E t, u \in Threads :
        /\ pc[t] = "status" /\ pc[u] = "lock"
        /\ end_date[t] # end_date[u]

\* Job i was stored, and until job j was posted no job for another date was.
StillCached(i, j) ==
    /\ Stored(i)
    /\ \A k \in (i + 1)..(j - 1) :
           Stored(k) => jobs[k].end_date = jobs[i].end_date

\* C3: two jobs for one date are never submitted within 24 hours of each
\* other while the first one's table stays in the cache: the later call is
\* served from the cache instead, and a call served from the cache has sent
\* no POST, no status GET and no download GET.
C3_NoSecondSubmission ==
    /\ \A i, j \in 1..Len(jobs) :
           ( /\ i < j
             /\ jobs[i].end_date = jobs[j].end_date
             /\ StillCached(i, j) )
           => jobs[j].posted - jobs[i].stored >= CacheTTLHours
    /\ \A t \in Threads :
           Served(t) => /\ [net[t] EXCEPT !.nodate = FALSE] = NoNet
                        /\ posts[t] = 0 /\ gets[t] = 0
                        /\ slept[t] = <<>>
                        /\ Stored(result[t])

\* One thread has called twice, the others not at all: the first call
\* fetched the table, the second was served from the cache.
C3_Witness ==
    \E t \in Threads :
        /\ \A u \in Threads \ {t} : pc[u] \in {"idle", "off"}
        /\ ncalls = 2 /\ Served(t) /\ result[t] = 1
        /\ Len(jobs) = 1 /\ jobs[1].end_date = end_date[t]

\* C4: a call served from the cache returns a table that was fetched for the
\* date it asked for.
C4_KeyedByDate ==
    \A t \in Threads :
        Served(t) => jobs[result[t]].end_date = end_date[t]

\* C5: a call is served from the cache only with a table stored less than 24
\* hours before; the re-check that finds an entry for its date of age 24
\* hours or more goes on to submit a job; and the table then fetched
\* replaces the entry.
C5_ExpiredNotServed ==
    [][\A t \in Threads :
          /\ (~Done(t) /\ Served(t)')
                => /\ jobs[result'[t]].stored # None
                   /\ now - jobs[result'[t]].stored < CacheTTLHours
          /\ ( /\ pc[t] = "recheck" /\ pc'[t] # "recheck"
               /\ _cache.df # None /\ _cache.end_date = end_date[t]
               /\ now - _cache.timestamp >= CacheTTLHours )
                => pc'[t] = "post"
          /\ (pc[t] = "store" /\ pc'[t] # "store")
                => /\ _cache' = [end_date |-> end_date[t], timestamp |-> now,
                                 df |-> job_id[t]]
                   /\ _cache'.df # _cache.df
      ]_vars

\* A call found the entry for its date 24 hours old or older, fetched the
\* table again and left it in the cache.
C5_Witness ==
    \E t \in Threads : \E i \in 1..Len(jobs) :
        /\ Done(t) /\ outcome[t] = "fetched" /\ i < result[t]
        /\ jobs[i].end_date = end_date[t]
        /\ StillCached(i, result[t])
        /\ jobs[result[t]].posted - jobs[i].stored >= CacheTTLHours
        /\ _cache.df = result[t]

StoredJobs == {i \in 1..Len(jobs) : Stored(i)}
LastStored == CHOOSE i \in StoredJobs : \A j \in StoredJobs : j <= i

\* C6: the cache is empty or holds exactly the entry of the job stored last,
\* and a call that returns a table returns that job's table, fetched for the
\* date it asked for.
C6_SingleSlot ==
    /\ StoredJobs = {} => _cache = EmptyCache
    /\ StoredJobs # {} =>
           _cache = [end_date |-> jobs[LastStored].end_date,
                     timestamp |-> jobs[LastStored].stored,
                     df |-> LastStored]
    /\ \A t \in Threads :
           (Done(t) /\ outcome[t] # "raised")
           => /\ result[t] = _cache.df
              /\ jobs[result[t]].end_date = end_date[t]

\* D1, then D2, then D1 again within 24 hours: the third call fetched anew.
C6_Witness ==
    /\ Len(jobs) = 3 /\ StoredJobs = {1, 2, 3}
    /\ jobs[1].end_date = jobs[3].end_date
    /\ jobs[2].end_date # jobs[1].end_date
    /\ jobs[3].posted - jobs[1].stored < CacheTTLHours
    /\ Done(1) /\ outcome[1] = "fetched" /\ result[1] = 3

\* The call raised out of _post_job, out of _check_status, out of
\* _download_results.
RaisedInPost(t) ==
    Done(t) /\ outcome[t] = "raised" /\ net[t].posted /\ ~net[t].polled
RaisedInStatus(t) ==
    Done(t) /\ outcome[t] = "raised" /\ net[t].polled /\ net[t].downloads = 0
RaisedInDownload(t) ==
    Done(t) /\ outcome[t] = "raised" /\ net[t].downloads > 0

Is4xx(e) == e.type = "HTTPError" /\ e.status >= 400 /\ e.status < 500
Is5xx(e) == e.type = "HTTPError" /\ e.status >= 500 /\ e.status < 600

\* C7: _post_job never sends another POST after a 4xx response, sends at
\* most two more after a first failure, and raises the HTTP error of a 5xx
\* response on the third POST only; the HTTP error of a 4xx response is
\* raised on the POST that received it.
C7_PostStatusPolicy ==
    \A t \in Threads :
        /\ pc[t] = "post" => /\ "4xx" \notin seen[t]
                             /\ posts[t] = attempt[t]
                             /\ attempt[t] <= 2
        /\ RaisedInPost(t) =>
              /\ posts[t] \in 1..3
              /\ "4xx" \notin seen[t]
              /\ Is5xx(err[t]) => posts[t] = 3
              /\ Is4xx(err[t]) => Cardinality(seen[t]) <= posts[t] - 1
              /\ err[t].type # "AssertionError"

\* Three POSTs were answered 500 and the third raised.
C7_Witness ==
    \E t \in Threads :
        /\ RaisedInPost(t) /\ Is5xx(err[t]) /\ err[t].status = 500
        /\ posts[t] = 3 /\ seen[t] = {"5xx"}

\* The exception is one the loop of _post_job retries on while attempts are
\* left.
Retriable(e) == Is5xx(e) \/ e.type = "ValueError"

\* C8 as stated: the third failed retriable attempt is followed by a delay
\* of 3 seconds as the first is by 1 second and the second by 2 seconds.
C8_DelaysOneTwoThree ==
    \A t \in Threads :
        (RaisedInPost(t) /\ Retriable(err[t]))
        => slept[t] = <<1000, 2000, 3000>>

\* C8 amended: the k-th failed retriable attempt of _post_job is followed by
\* a delay of k seconds for k = 1 and k = 2; the third failed attempt raises
\* with no delay, so a call sleeps 1s and 2s at most.
C8_DelaysOneTwo ==
    \A t \in Threads :
        /\ pc[t] = "post" => /\ attempt[t] <= 2
                             /\ slept[t] = [k \in 1..attempt[t] |-> 1000 * k]
        /\ RaisedInPost(t) =>
              /\ Retriable(err[t]) => slept[t] = <<1000, 2000>>
              /\ slept[t] = [k \in 1..(posts[t] - 1) |-> 1000 * k]

\* Two attempts have failed and the third is about to be sent.
C8_Witness ==
    \E t \in Threads :
        pc[t] = "post" /\ attempt[t] = 2 /\ slept[t] = <<1000, 2000>>

PostParseErrors ==
    { ValueError("Empty response body when posting job"),
      ValueError("Failed to parse JSON from job post response"),
      ValueError("Unexpected job post JSON structure") }

\* C9: an empty body, a body that is not JSON and a JSON body without
\* data.id are retried by _post_job like a 5xx: each failure of any kind
\* takes one of the three attempts, and the error of such a body is raised
\* on the third POST only, after delays of 1s and 2s.
C9_BodyFailuresRetried ==
    \A t \in Threads :
        /\ pc[t] = "post" =>
              /\ seen[t] \subseteq {"5xx", "empty", "badjson", "nokey"}
              /\ Cardinality(seen[t]) <= attempt[t]
              /\ attempt[t] = 0 <=> seen[t] = {}
              /\ attempt[t] < PostAttempts
        /\ (RaisedInPost(t) /\ err[t].type = "ValueError") =>
              /\ err[t] \in PostParseErrors
              /\ posts[t] = PostAttempts
              /\ slept[t] = <<1000, 2000>>
        /\ (pc[t] \in InSection \ {"recheck", "post"}) =>
              /\ job_id[t] \in 1..Len(jobs)
              /\ jobs[job_id[t]].end_date = end_date[t]

\* A 5xx, an empty body and a body without data.id, in some order, used up
\* the three attempts, and the last of them raised.
C9_Witness ==
    \E t \in Threads :
        /\ RaisedInPost(t) /\ posts[t] = 3
        /\ err[t] = ValueError("Unexpected job post JSON structure")
        /\ seen[t] = {"5xx", "empty"}

\* C10: a 303 response to a status GET is never retried on and never
\* raises: whatever its body, _check_status returns 1.0 on it, the poll loop
\* ends and the download of that job is next.
C10_SeeOtherCompletes ==
    \A t \in Threads :
        /\ "303" \notin seen[t]
        /\ net[t].last.status = 303 =>
              /\ net[t].ready = net[t].asked \/ net[t].asked = None
              /\ net[t].ready # None
              /\ \/ pc[t] \in {"download", "store"} /\ progress[t] = 100
                                                    /\ net[t].ready = job_id[t]
                 \/ RaisedInDownload(t)

\* A 303 with an empty body ended the poll loop.
C10_Witness ==
    \E t \in Threads :
        /\ pc[t] = "download" /\ progress[t] = 100
        /\ net[t].last.status = 303 /\ net[t].last.body = "empty"
        /\ net[t].downloads = 0

\* A step of thread t that is one iteration of the loop of _check_status.
StatusStep(t) ==
    pc[t] = "status" /\ (pc'[t] # "status" \/ attempt'[t] # attempt[t])

\* The delays of _check_status after n failed attempts: 1s, 1.5s, 2s, 2.5s.
StatusDelays(n) == [k \in 1..n |-> 1000 + 500 * (k - 1)]

\* C11: a 204 status response never raises; on the first four attempts of a
\* _check_status call it is retried after a delay 0.5s longer each attempt,
\* on the fifth attempt the call returns progress 0, and the poll loop then
\* sleeps 5 seconds and calls _check_status again.
C11_NoContentIsZero ==
    [][\A t \in Threads :
          /\ (StatusStep(t) /\ net'[t].last.status = 204) =>
                /\ outcome'[t] # "raised"
                /\ slept[t] = StatusDelays(attempt[t])
                /\ attempt[t] < 4 =>
                      /\ pc'[t] = "status"
                      /\ attempt'[t] = attempt[t] + 1
                      /\ slept'[t] = StatusDelays(attempt[t] + 1)
                /\ attempt[t] >= 4 =>
                      /\ attempt[t] = 4 /\ gets[t] = 4
                      /\ pc'[t] = "poll_wait"
                      /\ progress'[t] = 0
                      /\ slept'[t] = <<PollIntervalMs>>
          /\ (pc[t] = "poll_wait" /\ pc'[t] # "poll_wait") =>
                /\ pc'[t] = "status" /\ attempt'[t] = 0 /\ gets'[t] = 0
                /\ job_id'[t] = job_id[t]
      ]_vars

\* Five status checks in a row were answered 204: the call returned 0 and
\* the poll loop sleeps its 5 seconds.
C11_Witness ==
    \E t \in Threads :
        /\ pc[t] = "poll_wait" /\ net[t].last.status = 204
        /\ seen[t] = {"204"} /\ progress[t] = 0
        /\ slept[t] = <<PollIntervalMs>>

\* C12: a 5xx status response is retried on the first four attempts of a
\* _check_status call; the HTTP error of a 5xx is raised on the fifth GET
\* only, after delays of 1s, 1.5s, 2s and 2.5s, and it ends get_client_list:
\* the call is over, holds no lock and has requested no download.
C12_PollServerErrors ==
    \A t \in Threads :
        /\ pc[t] = "status" =>
              /\ attempt[t] < StatusAttempts
              /\ gets[t] = attempt[t]
              /\ slept[t] = StatusDelays(attempt[t])
        /\ (RaisedInStatus(t) /\ Is5xx(err[t])) =>
              /\ gets[t] = StatusAttempts
              /\ slept[t] = StatusDelays(StatusAttempts - 1)
              /\ net[t].last.status = err[t].status
              /\ _lock # t
              /\ net[t].downloads = 0 /\ result[t] = None

\* Five status checks in a row were answered 500 and the fifth raised.
C12_Witness ==
    \E t \in Threads :
        /\ RaisedInStatus(t) /\ Is5xx(err[t])
        /\ gets[t] = 5 /\ seen[t] = {"5xx"}

PollStates == {"status", "poll_wait"}

\* The response says the job is not complete: no content yet, or a
\* well-formed body with progress under 1.0.
NotReady(resp) ==
    \/ resp.status = 204
    \/ resp.status = 200 /\ resp.body = "ok" /\ resp.percent < 100

\* C13: the poll loop is left only to the download, on a status check that
\* returned progress >= 1.0, or by an exception of a status check; a status
\* check answered "not ready" leaves the call in the loop, whatever the
\* number of checks before it, so a remote that is never ready keeps
\* get_client_list from returning or raising.  Once the remote has signalled
\* completion and the download has been parsed, the call returns the table.
C13_PollUnbounded ==
    /\ [][\A t \in Threads :
             /\ (pc[t] \in PollStates /\ pc'[t] \notin PollStates) =>
                   \/ /\ pc'[t] = "download" /\ progress'[t] >= 100
                      /\ ~NotReady(net'[t].last)
                   \/ /\ pc'[t] = "done" /\ outcome'[t] = "raised"
                      /\ pc[t] = "status" /\ ~NotReady(net'[t].last)
             /\ (StatusStep(t) /\ NotReady(net'[t].last)) =>
                   /\ pc'[t] \in PollStates
                   /\ outcome'[t] = "none"
             /\ (pc[t] = "poll_wait") => pc'[t] \in PollStates
       ]_vars
    /\ \A t \in Threads :
           (pc[t] = "store") ~> (Done(t) /\ outcome[t] = "fetched")

\* The poll loop has gone round: a status check returned "not ready", the 5
\* seconds have passed and the next _check_status call begins.
C13_Witness ==
    \E t \in Threads :
        /\ pc[t] = "status" /\ net[t].polled
        /\ attempt[t] = 0 /\ gets[t] = 0 /\ progress[t] = None

DownloadErrors ==
    { ValueError("Empty CSV download content from Addepar"),
      ValueError("Failed to parse CSV download") }

\* C14: a call sends at most one download GET.  An error status, an empty
\* body and a body that is no CSV each end the call with the error of that
\* one GET, and only a well-formed answer gets to the cache update; the
\* failed call has posted one job and leaves the cache without its table.
C14_DownloadNotRetried ==
    \A t \in Threads :
        /\ net[t].downloads <= 1
        /\ pc[t] = "download" => net[t].downloads = 0
        /\ pc[t] = "store" => net[t].downloads = 1 /\ net[t].got = "ok"
        /\ net[t].got \in {"5xx", "4xx", "empty", "badcsv"} =>
              /\ RaisedInDownload(t)
              /\ net[t].downloads = 1
              /\ Len(jobs) = 1 /\ ~Stored(1)
              /\ _cache = EmptyCache
              /\ net[t].got = "empty" =>
                     err[t] = ValueError("Empty CSV download content from Addepar")
              /\ net[t].got = "badcsv" =>
                     err[t] = ValueError("Failed to parse CSV download")
              /\ net[t].got \in {"5xx", "4xx"} => err[t].type = "HTTPError"
        /\ RaisedInDownload(t) => net[t].got # "ok"

\* The one download GET was answered with an empty body and the call raised.
C14_Witness ==
    \E t \in Threads :
        /\ RaisedInDownload(t) /\ net[t].got = "empty"
        /\ err[t] \in DownloadErrors /\ net[t].downloads = 1

\* C15: a call made without a date takes the date of the day of the call;
\* when it has fetched, one job was submitted, for that date, one download
\* was requested, for that job, after a status check reported it complete,
\* the call returned the table of that download, and the cache holds that
\* table under the call's date with the time of the update.
C15_EndToEnd ==
    /\ [][\A t \in Threads :
             (pc[t] \in {"idle", "done"} /\ pc'[t] = "read_end" /\ net'[t].nodate)
             => end_date'[t] = (now \div HoursPerDay) + 1
       ]_vars
    /\ [](\A t \in Threads :
             (Done(t) /\ outcome[t] = "fetched" /\ net[t].nodate) =>
                 /\ Len(jobs) = 1
                 /\ jobs[1].end_date = end_date[t]
                 /\ net[t].downloads = 1 /\ net[t].got = "ok"
                 /\ net[t].asked = 1 /\ net[t].ready = 1
                 /\ result[t] = 1
                 /\ _cache = [end_date |-> end_date[t],
                              timestamp |-> jobs[1].stored, df |-> 1]
                 /\ jobs[1].posted <= jobs[1].stored /\ jobs[1].stored <= now)

\* A call without a date has fetched the table and cached it under today's
\* date.
C15_Witness ==
    \E t \in Threads :
        /\ Done(t) /\ outcome[t] = "fetched" /\ net[t].nodate
        /\ result[t] = 1 /\ _cache.df = 1 /\ _cache.end_date = Today
        /\ net[t].downloads = 1

\* C19: a call past the re-check posts first, polls the job that POST
\* returned, and downloads that job only after a status check of it reported
\* progress >= 1.0; the job is for the call's date; the cache holds a
\* table only of a job whose download was parsed, and a call that fetched
\* has gone through all three stages, in that order.
C19_SubmitPollDownload ==
    \A t \in Threads :
        /\ net[t].polled => net[t].posted
        /\ net[t].downloads > 0 =>
              /\ net[t].polled
              /\ net[t].ready # None /\ net[t].asked = net[t].ready
        /\ pc[t] = "post" => ~net[t].polled /\ net[t].downloads = 0
        /\ pc[t] \in {"status", "poll_wait", "download", "store"} =>
              /\ net[t].posted
              /\ job_id[t] = Len(jobs)
              /\ jobs[job_id[t]].end_date = end_date[t]
              /\ ~Stored(job_id[t]) /\ _cache.df # job_id[t]
        /\ pc[t] \in PollStates => net[t].downloads = 0 /\ net[t].ready = None
        /\ pc[t] = "download" =>
              /\ progress[t] >= 100
              /\ net[t].ready = job_id[t] /\ net[t].downloads = 0
        /\ pc[t] = "store" =>
              /\ net[t].asked = job_id[t] /\ net[t].ready = job_id[t]
              /\ client_df[t] = job_id[t] /\ net[t].got = "ok"
        /\ (Done(t) /\ outcome[t] = "fetched") =>
              /\ net[t].posted /\ net[t].polled /\ net[t].downloads = 1
              /\ net[t].asked = result[t] /\ net[t].ready = result[t]
              /\ Stored(result[t])
        /\ _cache.df # None => Stored(_cache.df)

\* The second call missed the cache and has gone from submit to download
\* with its own job, while the cache holds the first call's table.
C19_Witness ==
    \E t \in Threads :
        /\ pc[t] = "store" /\ job_id[t] = 2 /\ net[t].asked = 2
        /\ Stored(1) /\ _cache.df = 1

\* C20: nothing but the update that ends a successful fetch changes the
\* cache: a call that raises, out of the submit, the poll or the download,
\* leaves the entry for its own or for another date in place and creates
\* none.
C20_FailureKeepsCache ==
    [][\A t \in Threads :
          /\ (~Done(t) /\ Done(t)' /\ outcome'[t] = "raised") => _cache' = _cache
          /\ (pc[t] # "store") =>
                (_cache' = _cache \/ \E u \in Threads \ {t} : pc[u] = "store")
          /\ (_cache' # _cache) =>
                \E u \in Threads : /\ pc[u] = "store" /\ Done(u)'
                                   /\ outcome'[u] = "fetched"
                                   /\ _cache'.df = result'[u]
      ]_vars

\* A call raised out of the download while the cache held an earlier table,
\* which it still holds.
C20_Witness ==
    \E t \in Threads :
        /\ RaisedInDownload(t) /\ Len(jobs) = 2 /\ ~Stored(2)
        /\ _cache.df = 1 /\ Stored(1)
        /\ _cache.timestamp = jobs[1].stored


\* C17: constructing the retriever fails, with the error of a missing
\* configuration, exactly when no credential is given as a parameter and none
\* is in ADDEPAR_AUTH (a credential being a string that is not empty); in
\* every other case it succeeds, with the parameter's credential when there is
\* one and the environment's otherwise.
NoCredential(str) == str \in {Unset, ""}

C17_ConstructorCredentials ==
    \A t \in Threads :
        LET r == retriever[t] IN
        /\ (r.err # NoError) <=> (NoCredential(r.arg) /\ NoCredential(run.env))
        /\ r.err # NoError =>
              /\ r.err.type = "ValueError"
              /\ r.auth = <<>>
        /\ ~NoCredential(r.arg) => r.auth = B64(r.arg)
        /\ NoCredential(r.arg) /\ ~NoCredential(run.env) => r.auth = B64(run.env)

\* C17 witness: a retriever was made with an empty parameter and an empty
\* ADDEPAR_AUTH, and the constructor raised.
C17_Witness ==
    \E t \in Threads :
        /\ retriever[t].arg = ""
        /\ run.env = ""
        /\ retriever[t].err.type = "ValueError"


\* The place an exception was raised at, which its message names: the
\* constructor, a response body of the submit or poll stage that is empty,
\* not JSON or without the expected field, the download stage, or the HTTP
\* layer (raise_for_status).
ConfigMessages == {"No authentication provided"}
BodyMessages == {"Empty response body when posting job",
                 "Failed to parse JSON from job post response",
                 "Unexpected job post JSON structure",
                 "Empty response body when checking job status",
                 "Failed to parse JSON from job status",
                 "Unexpected status JSON structure"}
DownloadMessages == {"Empty CSV download content from Addepar",
                     "Failed to parse CSV download"}

Failure(e) ==
    IF e.type = "HTTPError" THEN "transient"
    ELSE IF e.msg \in ConfigMessages THEN "configuration"
    ELSE IF e.msg \in BodyMessages THEN "malformed"
    ELSE IF e.msg \in DownloadMessages THEN "download"
    ELSE "other"

\* The exceptions that have reached the callers: out of the constructor and
\* out of get_client_list.
Surfaced ==
    ({retriever[t].err : t \in Threads} \cup {err[t] : t \in Threads}) \ {NoError}

\* C16: failures of different kinds (missing credentials, retries exhausted
\* on a transient failure, a malformed body, an empty or unparseable
\* download) reach the caller as exceptions of different types, so that the
\* type of the exception tells the kind of the failure.
C16_KindsDistinct ==
    \A e1, e2 \in Surfaced :
        Failure(e1) # Failure(e2) => e1.type # e2.type


\* C18: a call of get_addepar_client_list_cached that needed a refresh and
\* whose fetch failed returns the table of the cache file when there is a
\* file, however old, and the empty table when there is none; it never lets
\* an exception through to the callback.
C18_FetchFailureFallsBack ==
    \A t \in Threads :
        pc[t] = "app_done" /\ view[t].path \in {"stale", "empty"} =>
            /\ view[t].state = "returned"
            /\ view[t].err = NoError
            /\ view[t].path = "empty" => view[t].data = EmptyFrame
            /\ view[t].path = "stale" => view[t].data \notin {None, EmptyFrame}


\* Thread t leaves the with block in this step, by return or by exception.
Leaves(t) == pc[t] \in InSection /\ pc'[t] \notin InSection

\* Some thread other than u is inside the with block.
OtherInSection(u) == \E w \in Threads \ {u} : pc[w] \in InSection

\* C21: the lock is released on every exit of get_client_list, by return or
\* by exception, and a thread holds it only inside the with block; a thread
\* waiting for the lock that no other thread is holding gets it (whether the
\* last holder returned or raised), then makes its own re-check and, on a
\* miss, goes on to its own submission.
C21_LockReleased ==
    /\ [][\A t \in Threads :
             /\ Leaves(t) => pc'[t] = "done" /\ _lock = t /\ _lock' = 0
             /\ pc[t] = "lock" /\ pc'[t] # "lock" =>
                   pc'[t] = "recheck" /\ _lock = 0 /\ _lock' = t
             /\ pc[t] = "recheck" /\ pc'[t] # "recheck" =>
                   IF PostLockHit(t)
                   THEN pc'[t] = "done" /\ outcome'[t] = "postlock"
                   ELSE pc'[t] = "post" /\ posts'[t] = 0]_vars
    /\ [](\A t \in Threads : Done(t) => _lock # t)
    /\ \A u \in Threads :
           (pc[u] = "lock") ~> (pc[u] = "recheck" \/ OtherInSection(u))
    /\ \A u \in Threads :
           (pc[u] = "recheck") ~> (pc[u] \in {"post", "done"})

\* C21 witness: a call raised under the lock, and the thread that was
\* waiting for the lock has it and is submitting its own job.
C21_Witness ==
    \E t, u \in Threads :
        /\ Done(t) /\ outcome[t] = "raised" /\ net[t].posted
        /\ pc[u] = "post" /\ _lock = u /\ end_date[u] = end_date[t]


\* The three locals of thread t are the fields of one cache entry: the empty
\* one, or the one stored for the job whose table cached_df is.
OneEntry(t) ==
    IF cached_df[t] = None
    THEN cached_end[t] = None /\ cached_time[t] = None
    ELSE /\ Stored(cached_df[t])
         /\ cached_end[t] = jobs[cached_df[t]].end_date
         /\ cached_time[t] = jobs[cached_df[t]].stored

\* C22: under every interleaving the three reads made without the lock see
\* one and the same cache entry, and a table returned by the fast path for
\* date D was downloaded by a job submitted with end_date D.
C22_FastPathOneEntry ==
    \A t \in Threads :
        /\ pc[t] = "check" => OneEntry(t)
        /\ Done(t) /\ outcome[t] = "fast" =>
              /\ Stored(result[t])
              /\ jobs[result[t]].end_date = end_date[t]


\* Before the with statement: the three reads and the test on them.
PreLock == {"read_end", "read_time", "read_df", "check"}

\* A step of thread t before the with statement.
PreLockStep(t) == ReadEnd(t) \/ ReadTime(t) \/ ReadDf(t) \/ FastCheck(t)

\* C23: a call whose first check finds a valid entry for its date (stored
\* less than 24 hours ago) returns that entry's table without acquiring the
\* lock; up to that check a call neither holds nor waits for the lock and
\* can always take its next step, whoever holds the lock; only a call whose
\* first check misses goes on to wait for the lock.
C23_FastPathWithoutLock ==
    /\ [][\A t \in Threads :
             pc[t] = "check" /\ pc'[t] # "check" =>
                 IF CacheHit(cached_end[t], cached_time[t], cached_df[t],
                             end_date[t], now)
                 THEN /\ pc'[t] = "done" /\ outcome'[t] = "fast"
                      /\ result'[t] = cached_df[t]
                      /\ _lock' = _lock
                      /\ net'[t].posted = FALSE
                 ELSE pc'[t] = "lock"]_vars
    /\ [][\A t \in Threads :
             pc'[t] = "lock" /\ pc[t] # "lock" => pc[t] = "check"]_vars
    /\ [](\A t \in Threads :
             pc[t] \in PreLock => _lock # t /\ ENABLED PreLockStep(t))

\* C23 witness: a thread holds the lock and polls its job for one date, and
\* another thread's first check has found the valid entry for another date.
C23_Witness ==
    \E t, u \in Threads :
        /\ pc[u] \in {"status", "poll_wait"} /\ _lock = u
        /\ pc[t] = "check" /\ end_date[t] # end_date[u]
        /\ CacheHit(cached_end[t], cached_time[t], cached_df[t], end_date[t], now)
        /\ _cache.end_date = end_date[t] /\ _cache.df = cached_df[t]


\* C24: whatever the responses, a _post_job call sends at most 3 POSTs and a
\* _check_status call at most 5 GETs: a loop is entered for another
\* iteration only after fewer requests than that, every call ends by a
\* return or a raise inside its loop, and the assert after the loop is never
\* reached.
C24_AssertUnreachable ==
    \A t \in Threads :
        /\ posts[t] <= 3
        /\ gets[t] <= 5
        /\ pc[t] = "post" => attempt[t] < 3 /\ posts[t] = attempt[t]
        /\ pc[t] = "status" => attempt[t] < 5 /\ gets[t] = attempt[t]
        /\ err[t].type # "AssertionError"

\* C24 witness: a _check_status call has raised on its fifth GET, after four
\* retries.
C24_Witness ==
    \E t \in Threads :
        /\ Done(t) /\ outcome[t] = "raised"
        /\ gets[t] = 5 /\ Len(slept[t]) = 4
        /\ err[t].type \in {"HTTPError", "ValueError"}


\* Job i was posted by a retriever other than the one thread t holds.
OtherInstance(t, i) ==
    jobs[i].auth # retriever[t].auth \/ jobs[i].firm # retriever[t].firm

\* C25: the cache is shared by all retrievers of the process: once a
\* retriever has stored the table for a date, a call for that date on any
\* retriever, whatever its credentials and firm, within 24 hours and with
\* that table still cached, submits no job and returns that table.
C25_SharedByInstances ==
    /\ [](\A i, j \in 1..Len(jobs) :
             ( /\ i < j
               /\ jobs[i].end_date = jobs[j].end_date
               /\ StillCached(i, j) )
             => jobs[j].posted - jobs[i].stored >= CacheTTLHours)
    /\ [](\A t \in Threads :
             ( /\ Done(t) /\ Stored(_cache.df)
               /\ _cache.end_date = end_date[t]
               /\ now - _cache.timestamp < CacheTTLHours )
             => /\ outcome[t] \in FromCache \cup {"fetched"}
                /\ result[t] = _cache.df
                /\ outcome[t] \in FromCache =>
                      /\ ~net[t].posted /\ posts[t] = 0
                      /\ jobs[result[t]].end_date = end_date[t])
    /\ [][\A t \in Threads :
             ( /\ pc[t] = "check" /\ pc'[t] # "check"
               /\ Stored(_cache.df)
               /\ _cache.end_date = end_date[t]
               /\ now - _cache.timestamp < CacheTTLHours )
             => /\ outcome'[t] = "fast" /\ result'[t] = _cache.df
                /\ jobs' = jobs /\ ~net'[t].posted]_vars

\* C25 witness: a call on a retriever is at its first check, and the cache
\* holds for its date the table of a job that a retriever with other
\* credentials and another firm has posted and stored.
C25_Witness ==
    \E t \in Threads :
        /\ pc[t] = "check" /\ _cache.df = 1 /\ Stored(1)
        /\ _cache.end_date = end_date[t]
        /\ now - _cache.timestamp < CacheTTLHours
        /\ OtherInstance(t, 1)
        /\ jobs[1].auth # retriever[t].auth
        /\ jobs[1].firm # retriever[t].firm


\* C26: _check_status does not raise the HTTP error of a 4xx on the attempt
\* that received it: on the first four attempts it sleeps 1s, 1.5s, 2s, 2.5s
\* and asks again, as for a 5xx, and it raises on the fifth GET only;
\* _post_job raises a 4xx on the POST that received it, with no sleep after
\* it and no 4xx among the responses it retried on.
C26_Status4xxRetried ==
    /\ [](\A t \in Threads :
             /\ (RaisedInStatus(t) /\ Is4xx(err[t])) =>
                   /\ gets[t] = 5
                   /\ slept[t] = StatusDelays(4)
                   /\ net[t].last.status = err[t].status
             /\ (RaisedInPost(t) /\ Is4xx(err[t])) =>
                   /\ "4xx" \notin seen[t]
                   /\ posts[t] = Len(slept[t]) + 1)
    /\ [][\A t \in Threads :
             ( /\ pc[t] = "status" /\ gets'[t] = gets[t] + 1
               /\ net'[t].last.status \in 400..499
               /\ attempt[t] < 4 )
             => /\ pc'[t] = "status"
                /\ attempt'[t] = attempt[t] + 1
                /\ slept'[t] = Append(slept[t], 1000 + 500 * attempt[t])
                /\ seen'[t] = seen[t] \cup {"4xx"}]_vars

\* C26 witness: five status checks in a row were answered 400, and the
\* fifth raised.
C26_Witness ==
    \E t \in Threads :
        /\ RaisedInStatus(t) /\ Is4xx(err[t]) /\ err[t].status = 400
        /\ gets[t] = 5 /\ seen[t] = {"4xx"}


\* C27: a load started by the 'Force Refresh' button that returns a freshly
\* fetched table returns the table of an export job submitted after the
\* click, not data retrieved before it.
C27_ForceRefreshFetchesAnew ==
    \A t \in Threads :
        ( /\ view[t].since # None
          /\ pc[t] = "app_done"
          /\ view[t].state = "returned" /\ view[t].path = "fresh" )
        => view[t].data > view[t].since


\* C28: an account gets the status 'ALL CLEAR' only when it was found in
\* the Addepar table and found not restricted, and the bulk summary 'ALL
\* ACCOUNTS CLEAR', which says that all accounts are in Addepar, is shown only
\* when every account checked is in the Addepar table.
C28_AllClearMeansInAddepar ==
    /\ \A i \in 1..Len(bulk.results) :
           bulk.results[i].OverallStatus = "ALL CLEAR" =>
               /\ bulk.results[i].in_addepar = "True"
               /\ bulk.results[i].is_restricted = "False"
    /\ bulk.summary = "ALL ACCOUNTS CLEAR" =>
           \A i \in 1..Len(bulk.accounts) :
               Clean(bulk.accounts[i]) \in run.addepar

====
